---- MODULE Spec2Model ----
(***************************************************************************)
(* Megaplexer: seven-segment multiplexing for the ATmega328P.              *)
(*                                                                         *)
(* Two execution contexts share the array digitStates:                     *)
(*   - the main context: setup() once, then loop() for ever, which scans   *)
(*     the digits with updateDisplay(digit) and delayMicroseconds(2);      *)
(*   - the TWI interrupt, which runs receiveEvent() to completion.         *)
(* The millisecond counter behind millis() advances on its own.            *)
(*                                                                         *)
(* Spec is the whole program, SpecAnyPolarity the same for either value of *)
(* IS_COMMON_ANODE, SpecRx the receiver on its own with a wider range of   *)
(* transactions, SpecMulti the whole program with a transaction for two    *)
(* digits, SpecByte the whole program with every index byte, LiveSpec the  *)
(* whole program under fairness.                                           *)
(***************************************************************************)
EXTENDS Integers, Sequences, FiniteSets

(***************************************************************************)
(* Program constants (src/src/main.cpp).                                   *)
(***************************************************************************)
NUM_DIGITS == 6

NUM_SEGMENTS == 8

StoreSize == 6

RefreshPeriod == 2

DefaultPattern == 64

LOW == "LOW"

HIGH == "HIGH"

Digits == 0 .. (NUM_DIGITS - 1)

Segments == 0 .. (NUM_SEGMENTS - 1)

commonPins == [d \in Digits |-> <<3, 5, 6, 9, 10, 11>>[d + 1]]

segmentPins == [s \in Segments |-> <<0, 1, 2, 4, 7, 8, 12, 13>>[s + 1]]

Pins == 0 .. 13

(***************************************************************************)
(* Bounds of the model.                                                    *)
(***************************************************************************)
\* millis() and lastUpdateTime are unsigned; the model keeps MillisBits bits.
MillisBits == 2

\* Longest transaction, in bytes, the receiver is exercised with on its own.
MaxLen == 5

MillisMod == 2 ^ MillisBits

\* Index and pattern bytes of the transactions the receiver is exercised with.
RxIdxBytes == {2, 5, 6, 7, 255}

RxPatBytes == {102, 255}

\* Byte sequences of n bytes: index bytes at odd places, pattern bytes at even.
TxOfLen(n, I, P) ==
    {[k \in 1 .. n |-> IF k % 2 = 1 THEN f[(k + 1) \div 2] ELSE g[k \div 2]] :
        f \in [1 .. ((n + 1) \div 2) -> I], g \in [1 .. (n \div 2) -> P]}

Transactions(maxLen, I, P) == UNION {TxOfLen(n, I, P) : n \in 0 .. maxLen}

RxTransactions == Transactions(MaxLen, RxIdxBytes, RxPatBytes)

\* The transactions that arrive while the scan is running: an empty one, a
\* truncated one, one with an out-of-range index, and two patterns for slot 2.
ScanTransactions == {<<>>, <<7>>, <<7, 255>>, <<2, 102>>, <<2, 63>>}

\* The transactions that arrive in the runs checked for progress: valid,
\* out-of-range index, odd length, empty.
LiveTransactions == {<<>>, <<7>>, <<7, 255>>, <<2, 102>>}

\* A truncated transaction and one that updates two digits at once.
MultiTransactions == {<<7>>, <<4, 102, 5, 102>>}

\* Sixteen pairs, as many as the 32-byte buffer of Wire takes: the index bytes
\* 16k .. 16k + 15, each with the default pattern so that the store keeps its
\* content.
ByteRun(k) ==
    [j \in 1 .. 32 |-> IF j % 2 = 1 THEN 16 * k + (j - 1) \div 2
                                   ELSE DefaultPattern]

\* Every byte 0..255 the host can send as an index, and a truncated
\* transaction.
ByteTransactions == {ByteRun(k) : k \in 0 .. 15} \cup {<<255>>}

\* The digits whose displayed segment levels the history variable shown keeps.
WatchedDigits == {4}

VARIABLES
    IS_COMMON_ANODE,  \* build configuration: the wiring polarity
    pc,               \* position of the main context
    digit,            \* loop(): the for-loop variable
    i,                \* updateDisplay(): variable of the first loop
    seg,              \* updateDisplay(): variable of the segment loop
    segRegister,      \* updateDisplay(): digitStates[digit] as first loaded
    pinLevel,         \* output level of every pin
    digitStates,      \* the digit store
    now,              \* the value millis() returns
    lastUpdateTime,   \* loop(): static lastUpdateTime
    inISR,            \* receiveEvent() is running
    rxBuffer,         \* Wire: the bytes not yet read
    numBytes,         \* receiveEvent(): its argument
    rxEntryTx,        \* history: the bytes available when receiveEvent began
    rxEntryStates,    \* history: digitStates when receiveEvent began
    rxIters,          \* history: iterations of the while loop so far
    rxUnderflow,      \* history: Wire.read() was called with nothing to read
    rxDropped,        \* history: the last transaction never reached receiveEvent
    activated,        \* history: the last NUM_DIGITS digits turned on
    rxSinceCall,      \* history: receiveEvent ran since updateDisplay was called
    writtenInCycle,   \* history: slots written since the refresh cycle began
    shown             \* history: segment levels at the end of a watched dwell

vars == <<IS_COMMON_ANODE, pc, digit, i, seg, segRegister, pinLevel,
          digitStates, now, lastUpdateTime, inISR, rxBuffer, numBytes,
          rxEntryTx, rxEntryStates, rxIters, rxUnderflow, rxDropped,
          activated, rxSinceCall, writtenInCycle, shown>>

mainVars == <<pc, digit, i, seg, segRegister, pinLevel, lastUpdateTime,
              activated, shown>>

rxVars == <<inISR, rxBuffer, numBytes, rxEntryTx, rxEntryStates, rxIters,
            rxUnderflow, rxDropped>>

(***************************************************************************)
(* Helpers.                                                                *)
(***************************************************************************)
\* digitalWrite(pin, val) with a bool val: true is HIGH, false is LOW.
Level(b) == IF b THEN HIGH ELSE LOW

digitalWrite(levels, pin, val) == [levels EXCEPT ![pin] = Level(val)]

\* digitStates[digit] & (1 << seg), converted to bool.
BitSet(pattern, s) == (pattern \div (2 ^ s)) % 2 = 1

\* The levels of the eight segment lines, by segment.
SegmentLevels(levels) == [s \in Segments |-> levels[segmentPins[s]]]

DefaultStates == [d \in 0 .. (StoreSize - 1) |-> DefaultPattern]

\* Wire.available()
WireAvailable(buf) == Len(buf)

\* Wire.read(): the next byte, or -1 (255 as a byte) when there is none.
WireReadValue(buf) == IF Len(buf) > 0 THEN Head(buf) ELSE 255

WireReadRest(buf) == IF Len(buf) > 0 THEN Tail(buf) ELSE buf

\* Variant: the loop runs while any byte is available.
RxLoopGuard_AnyByte(buf) == WireAvailable(buf) > 0

\* while (Wire.available() > 1)
RxLoopGuard(buf) == WireAvailable(buf) > 1

\* Variant: the comparison admits the index 6.
IndexAccepted_UpToSix(digitIndex) == digitIndex <= 6

\* if (digitIndex < 6)
IndexAccepted(digitIndex) == digitIndex < 6

\* Variant: the pattern lands one slot too high.
ApplyPair_OffByOne(states, digitIndex, segmentStates) ==
    IF IndexAccepted(digitIndex)
    THEN [states EXCEPT ![(digitIndex + 1) % StoreSize] = segmentStates]
    ELSE states

\* Variant: no range check, the index wraps into the store.
ApplyPair_NoCheck(states, digitIndex, segmentStates) ==
    [states EXCEPT ![digitIndex % StoreSize] = segmentStates]

\* Variant: a slot already changed from the default is not written again.
ApplyPair_FirstWins(states, digitIndex, segmentStates) ==
    IF IndexAccepted(digitIndex) /\ states[digitIndex] = DefaultPattern
    THEN [states EXCEPT ![digitIndex] = segmentStates]
    ELSE states

\* if (digitIndex < 6) digitStates[digitIndex] = segmentStates;
ApplyPair(states, digitIndex, segmentStates) ==
    IF IndexAccepted(digitIndex)
    THEN [states EXCEPT ![digitIndex] = segmentStates]
    ELSE states

(***************************************************************************)
(* Initial state: the globals as the program image sets them, every pin    *)
(* LOW as after reset, setup() not yet run.                                *)
(***************************************************************************)
InitCommon ==
    /\ pc = "setup"
    /\ digit = 0
    /\ i = 0
    /\ seg = 0
    /\ segRegister = 0
    /\ pinLevel = [p \in Pins |-> LOW]
    /\ digitStates = DefaultStates
    /\ now = 0
    /\ lastUpdateTime = 0
    /\ inISR = FALSE
    /\ rxBuffer = <<>>
    /\ numBytes = 0
    /\ rxEntryTx = <<>>
    /\ rxEntryStates = DefaultStates
    /\ rxIters = 0
    /\ rxUnderflow = FALSE
    /\ rxDropped = FALSE
    /\ activated = <<>>
    /\ rxSinceCall = FALSE
    /\ writtenInCycle = {}
    /\ shown = [d \in WatchedDigits |-> SegmentLevels([p \in Pins |-> LOW])]

Init == IS_COMMON_ANODE = TRUE /\ InitCommon

\* Either wiring polarity the configuration allows.
InitAnyPolarity == IS_COMMON_ANODE \in BOOLEAN /\ InitCommon

(***************************************************************************)
(* setup()                                                                 *)
(***************************************************************************)
\* The level setup() writes to every common pin.
SetupCommonLevel == ~IS_COMMON_ANODE

\* The level setup() writes to every segment pin.
SetupSegmentLevel == IS_COMMON_ANODE

Setup ==
    /\ pc = "setup"
    /\ pinLevel' = [p \in Pins |->
                      IF \E d \in Digits : commonPins[d] = p
                      THEN Level(SetupCommonLevel)
                      ELSE IF \E s \in Segments : segmentPins[s] = p
                           THEN Level(SetupSegmentLevel)
                           ELSE pinLevel[p]]
    /\ pc' = "check"
    /\ UNCHANGED <<IS_COMMON_ANODE, digit, i, seg, segRegister, digitStates, now,
                   lastUpdateTime, activated, rxSinceCall, writtenInCycle,
                   shown>>
    /\ UNCHANGED rxVars

(***************************************************************************)
(* The millisecond counter.                                                *)
(***************************************************************************)
Tick ==
    /\ ~inISR
    /\ now' = (now + 1) % MillisMod
    /\ UNCHANGED <<IS_COMMON_ANODE, digitStates, rxSinceCall, writtenInCycle>>
    /\ UNCHANGED mainVars
    /\ UNCHANGED rxVars

(***************************************************************************)
(* loop() and updateDisplay()                                              *)
(***************************************************************************)
\* Variant: the main context runs on while receiveEvent() is running.
MainRuns_DuringHandler == TRUE

\* The main context runs only while no interrupt handler is running: the
\* handler, entered with interrupts disabled, returns before loop() resumes.
MainRuns == ~inISR

\* Variant: the difference is taken without the unsigned wrap-around.
RefreshDue_Signed == (now - lastUpdateTime) > RefreshPeriod

\* millis() - lastUpdateTime > 2, in unsigned arithmetic.
RefreshDue == ((now - lastUpdateTime) % MillisMod) > RefreshPeriod

\* loop(): the test that starts a refresh cycle.
LoopCheck ==
    /\ pc = "check"
    /\ MainRuns
    /\ IF RefreshDue
       THEN /\ pc' = "off"
            /\ digit' = 0
            /\ i' = 0
            /\ rxSinceCall' = FALSE
            /\ writtenInCycle' = {}
       ELSE UNCHANGED <<pc, digit, i, rxSinceCall, writtenInCycle>>
    /\ UNCHANGED <<IS_COMMON_ANODE, seg, segRegister, pinLevel, digitStates,
                   now, lastUpdateTime, activated,
                   shown>>
    /\ UNCHANGED rxVars

\* The level updateDisplay() writes to a common pin to turn its digit off.
CommonOffLevel == IS_COMMON_ANODE

\* The level updateDisplay() writes to the common pin of the current digit.
CommonOnLevel == ~IS_COMMON_ANODE

\* updateDisplay(): one iteration of the loop that turns the common pins off.
CommonOff ==
    /\ pc = "off"
    /\ MainRuns
    /\ i < NUM_DIGITS
    /\ pinLevel' = digitalWrite(pinLevel, commonPins[i], CommonOffLevel)
    /\ IF i + 1 < NUM_DIGITS
       THEN i' = i + 1 /\ pc' = pc
       ELSE i' = 0 /\ pc' = "on"
    /\ UNCHANGED <<IS_COMMON_ANODE, digit, seg, segRegister, digitStates, now,
                   lastUpdateTime, activated, rxSinceCall, writtenInCycle,
                   shown>>
    /\ UNCHANGED rxVars

\* updateDisplay(): turn on the current digit.
CommonOn ==
    /\ pc = "on"
    /\ MainRuns
    /\ pinLevel' = digitalWrite(pinLevel, commonPins[digit], CommonOnLevel)
    /\ activated' = (IF Len(activated) < NUM_DIGITS
                     THEN Append(activated, digit)
                     ELSE Append(Tail(activated), digit))
    /\ seg' = 0
    /\ pc' = "seg"
    /\ UNCHANGED <<IS_COMMON_ANODE, digit, i, segRegister, digitStates, now,
                   lastUpdateTime, rxSinceCall, writtenInCycle,
                   shown>>
    /\ UNCHANGED rxVars

\* Variant: the polarity is not taken into account.
SegmentValue_NoPolarity(segmentOn) == segmentOn

\* The value updateDisplay() writes to a segment pin.
SegmentValue(segmentOn) == IF IS_COMMON_ANODE THEN ~segmentOn ELSE segmentOn

\* Variant: the pattern is taken from the slot of the next digit.
SlotRead_Neighbour(d) == (d + 1) % NUM_DIGITS

\* The slot updateDisplay(digit) reads.
SlotRead(d) == d

\* Variant: reading a slot clears it.
SlotsAfterRead_Cleared(states, d) == [states EXCEPT ![d] = 0]

\* The store after updateDisplay() evaluated digitStates[digit] & (1 << seg):
\* the expression only reads the slot.
SlotsAfterRead(states, d) == states

\* updateDisplay(): one iteration of the loop that sets the segment pins.
\* digitStates is not volatile and receiveEvent() writes it from the
\* interrupt: the build may load digitStates[digit] again in an iteration or
\* use the value the first iteration loaded.
SegWrite ==
    /\ pc = "seg"
    /\ MainRuns
    /\ seg < NUM_SEGMENTS
    /\ LET loaded == digitStates[SlotRead(digit)]
           first == IF seg = 0 THEN loaded ELSE segRegister
       IN /\ \E pattern \in {loaded, first} :
                pinLevel' = digitalWrite(pinLevel, segmentPins[seg],
                                         SegmentValue(BitSet(pattern, seg)))
          /\ IF seg + 1 < NUM_SEGMENTS
             THEN seg' = seg + 1 /\ segRegister' = first /\ pc' = pc
             ELSE seg' = 0 /\ segRegister' = 0 /\ pc' = "dwell"
    /\ digitStates' = SlotsAfterRead(digitStates, SlotRead(digit))
    /\ UNCHANGED <<IS_COMMON_ANODE, digit, i, now,
                   lastUpdateTime, activated, rxSinceCall, writtenInCycle,
                   shown>>
    /\ UNCHANGED rxVars

\* Variant: the for loop steps by two.
NextDigit_Skip(d) == d + 2

\* loop(): digit++ of the for loop.
NextDigit(d) == d + 1

\* loop(): delayMicroseconds(2), then the next digit or the end of the cycle.
Dwell ==
    /\ pc = "dwell"
    /\ MainRuns
    /\ IF NextDigit(digit) < NUM_DIGITS
       THEN /\ digit' = NextDigit(digit)
            /\ pc' = "off"
            /\ rxSinceCall' = FALSE
       ELSE /\ digit' = 0
            /\ pc' = "stamp"
            /\ UNCHANGED rxSinceCall
    /\ shown' = (IF digit \in WatchedDigits
                 THEN [shown EXCEPT ![digit] = SegmentLevels(pinLevel)]
                 ELSE shown)
    /\ UNCHANGED <<IS_COMMON_ANODE, i, seg, segRegister, pinLevel, digitStates,
                   now, lastUpdateTime, activated, writtenInCycle>>
    /\ UNCHANGED rxVars

\* loop(): lastUpdateTime = millis().
Stamp ==
    /\ pc = "stamp"
    /\ MainRuns
    /\ lastUpdateTime' = now
    /\ pc' = "check"
    /\ UNCHANGED <<IS_COMMON_ANODE, digit, i, seg, segRegister, pinLevel,
                   digitStates, now, activated, rxSinceCall, writtenInCycle,
                   shown>>
    /\ UNCHANGED rxVars

(***************************************************************************)
(* The TWI interrupt: a transaction has arrived and receiveEvent() runs to *)
(* completion before the main context resumes.                             *)
(***************************************************************************)
\* Wire.onReceive(receiveEvent): the bytes of the transaction are handed over.
Deliver(tx) ==
    /\ pc # "setup"
    /\ ~inISR
    /\ inISR' = TRUE
    /\ rxBuffer' = tx
    /\ numBytes' = Len(tx)
    /\ rxEntryTx' = tx
    /\ rxEntryStates' = digitStates
    /\ rxIters' = 0
    /\ rxUnderflow' = FALSE
    /\ rxDropped' = FALSE
    /\ rxSinceCall' = TRUE
    /\ UNCHANGED <<IS_COMMON_ANODE, digitStates, now, writtenInCycle>>
    /\ UNCHANGED mainVars

\* A transaction arrives while bytes of an earlier one are still unread:
\* receiveEvent() has no part in what happens then. The Wire library of the
\* AVR core returns from its receive service without calling the handler
\* when its buffer has not been read to the end, and the transaction is lost.
WireDiscard ==
    /\ pc # "setup"
    /\ ~inISR
    /\ WireAvailable(rxBuffer) > 0
    /\ rxDropped' = TRUE
    /\ UNCHANGED <<IS_COMMON_ANODE, digitStates, now, rxSinceCall,
                   writtenInCycle, inISR, rxBuffer, numBytes, rxEntryTx,
                   rxEntryStates, rxIters, rxUnderflow>>
    /\ UNCHANGED mainVars

\* receiveEvent(): one iteration of the while loop.
RxPair ==
    /\ inISR
    /\ RxLoopGuard(rxBuffer)
    /\ LET digitIndex == WireReadValue(rxBuffer)
           afterIndex == WireReadRest(rxBuffer)
           segmentStates == WireReadValue(afterIndex)
       IN /\ digitStates' = ApplyPair(digitStates, digitIndex, segmentStates)
          /\ rxBuffer' = WireReadRest(afterIndex)
          /\ rxUnderflow' = (rxUnderflow \/ Len(rxBuffer) = 0
                                         \/ Len(afterIndex) = 0)
          /\ writtenInCycle' = (IF IndexAccepted(digitIndex)
                                THEN writtenInCycle \cup {digitIndex}
                                ELSE writtenInCycle)
    /\ rxIters' = rxIters + 1
    /\ UNCHANGED <<IS_COMMON_ANODE, now, rxSinceCall, inISR, numBytes,
                   rxEntryTx, rxEntryStates, rxDropped>>
    /\ UNCHANGED mainVars

\* receiveEvent(): the handler returns once `done` holds.
RxReturnWhen(done) ==
    /\ inISR
    /\ done
    /\ inISR' = FALSE
    /\ numBytes' = 0
    /\ rxEntryTx' = <<>>
    /\ rxEntryStates' = DefaultStates
    /\ rxIters' = 0
    /\ rxUnderflow' = FALSE
    /\ UNCHANGED <<IS_COMMON_ANODE, digitStates, now, rxBuffer, rxSinceCall,
                   writtenInCycle, rxDropped>>
    /\ UNCHANGED mainVars

\* Variant: the handler waits for the byte that would complete a pair.
RxReturn_WaitsForPair == RxReturnWhen(Len(rxBuffer) = 0)

\* receiveEvent(): the while loop ends and the handler returns.
RxReturn == RxReturnWhen(~RxLoopGuard(rxBuffer))

DeliverScan == \E tx \in ScanTransactions : Deliver(tx)

DeliverRx == \E tx \in RxTransactions : Deliver(tx)

DeliverLive == \E tx \in LiveTransactions : Deliver(tx)

DeliverMulti == \E tx \in MultiTransactions : Deliver(tx)

DeliverByte == \E tx \in ByteTransactions : Deliver(tx)

(***************************************************************************)
(* Specifications.                                                         *)
(***************************************************************************)
Next ==
    \/ Setup
    \/ Tick
    \/ LoopCheck
    \/ CommonOff
    \/ CommonOn
    \/ SegWrite
    \/ Dwell
    \/ Stamp
    \/ DeliverScan
    \/ RxPair
    \/ RxReturn
    \/ WireDiscard

Spec == Init /\ [][Next]_vars

\* The receiver on its own, with a wide range of transactions.
RxNext ==
    \/ Setup
    \/ DeliverRx
    \/ RxPair
    \/ RxReturn
    \/ WireDiscard

SpecRx == Init /\ [][RxNext]_vars

\* The whole program under either wiring polarity.
SpecAnyPolarity == InitAnyPolarity /\ [][Next]_vars

\* The steps of updateDisplay() and of loop() after the refresh test.
ScanStep == CommonOff \/ CommonOn \/ SegWrite \/ Dwell \/ Stamp

\* The steps of receiveEvent().
RxStep == RxPair \/ RxReturn

\* The whole program with the transactions of LiveTransactions. WireDiscard
\* is left out: it changes no variable of the program, only the history of
\* what the transport did.
LiveNext ==
    \/ Setup
    \/ Tick
    \/ LoopCheck
    \/ CommonOff
    \/ CommonOn
    \/ SegWrite
    \/ Dwell
    \/ Stamp
    \/ DeliverLive
    \/ RxPair
    \/ RxReturn

\* The whole program with the transactions of MultiTransactions.
MultiNext ==
    \/ Setup
    \/ Tick
    \/ LoopCheck
    \/ CommonOff
    \/ CommonOn
    \/ SegWrite
    \/ Dwell
    \/ Stamp
    \/ DeliverMulti
    \/ RxPair
    \/ RxReturn
    \/ WireDiscard

SpecMulti == Init /\ [][MultiNext]_vars

\* The whole program with the transactions of ByteTransactions.
ByteNext ==
    \/ Setup
    \/ Tick
    \/ LoopCheck
    \/ CommonOff
    \/ CommonOn
    \/ SegWrite
    \/ Dwell
    \/ Stamp
    \/ DeliverByte
    \/ RxPair
    \/ RxReturn
    \/ WireDiscard

SpecByte == Init /\ [][ByteNext]_vars

\* The main loop keeps running and time advances: the CPU executes at least
\* one instruction of the main context between two interrupts, polls the
\* refresh test far more often than the millisecond counter moves, and runs
\* an entered handler on; the counter is driven by a hardware timer.
LiveSpec ==
    /\ Init
    /\ [][LiveNext]_vars
    /\ WF_vars(Setup)
    /\ SF_vars(Tick)
    /\ SF_vars(LoopCheck)
    /\ SF_vars(ScanStep)
    /\ WF_vars(RxStep)

(***************************************************************************)
(* Properties of the Update Receiver (receiveEvent), under SpecRx.         *)
(***************************************************************************)
\* A step of the while loop of receiveEvent: one more iteration is counted.
RxPairStep == inISR /\ Len(rxBuffer) >= 2 /\ rxIters' = rxIters + 1

\* C1: when receiveEvent processes a pair (i, p) with 0 <= i < 6, slot i holds
\* p afterwards and every other slot holds the value it held before the pair.
C1_WriteHitsOnlyItsSlot ==
    [][(RxPairStep /\ rxBuffer[1] \in 0 .. 5)
         => /\ DOMAIN digitStates' = 0 .. 5
            /\ digitStates'[rxBuffer[1]] = rxBuffer[2]
            /\ \A j \in (0 .. 5) \ {rxBuffer[1]} :
                  digitStates'[j] = digitStates[j]]_vars

\* C1 witness: the bytes [2, 0b01100110] were processed on the default store;
\* slot 2 holds the pattern and every other slot the default.
C1_Witness ==
    /\ inISR
    /\ rxEntryTx = <<2, 102>>
    /\ rxIters = 1
    /\ rxEntryStates = DefaultStates
    /\ digitStates = [d \in 0 .. 5 |-> IF d = 2 THEN 102 ELSE 64]

\* C2: a pair whose index byte is outside 0..5 is dropped: no slot changes,
\* the handler keeps running and the bytes after the pair stay queued, so the
\* remaining pairs of the transaction are still processed.
C2_BadIndexDropped ==
    /\ [][(RxPairStep /\ rxBuffer[1] \notin 0 .. 5)
            => /\ digitStates' = digitStates
               /\ inISR'
               /\ rxBuffer' = SubSeq(rxBuffer, 3, Len(rxBuffer))]_vars
    /\ [](inISR /\ Len(rxBuffer) <= 1
            => /\ rxIters = Len(rxEntryTx) \div 2
               /\ \A k \in 1 .. (Len(rxEntryTx) \div 2) :
                     (/\ rxEntryTx[2 * k - 1] \in 0 .. 5
                      /\ \A m \in (k + 1) .. (Len(rxEntryTx) \div 2) :
                            rxEntryTx[2 * m - 1] # rxEntryTx[2 * k - 1])
                     => digitStates[rxEntryTx[2 * k - 1]] = rxEntryTx[2 * k])

\* C2 witness: [7, 0xFF, 2, 0x66] was received on the default store; the pair
\* for index 7 changed nothing and the pair after it was applied.
C2_Witness ==
    /\ inISR
    /\ rxEntryTx = <<7, 255, 2, 102>>
    /\ rxIters = 2
    /\ rxEntryStates = DefaultStates
    /\ digitStates = [d \in 0 .. 5 |-> IF d = 2 THEN 102 ELSE 64]

\* The store after the pairs of tx have been applied to s0 in arrival order:
\* slot j holds the pattern of the last pair that names j, else its old value.
ExpectedStates(s0, tx) ==
    [j \in 0 .. 5 |->
        LET ks == {k \in 1 .. (Len(tx) \div 2) : tx[2 * k - 1] = j}
        IN IF ks = {}
           THEN s0[j]
           ELSE tx[2 * (CHOOSE k \in ks : \A m \in ks : m <= k)]]

\* C3: one invocation with len bytes available consumes exactly floor(len/2)
\* pairs and applies them in arrival order (a later pair for an index
\* overwrites an earlier one); the unpaired last byte of an odd-length
\* transaction changes no slot.
C3_PairsInArrivalOrder ==
    inISR =>
        /\ rxIters <= Len(rxEntryTx) \div 2
        /\ digitStates =
              ExpectedStates(rxEntryStates, SubSeq(rxEntryTx, 1, 2 * rxIters))
        /\ Len(rxBuffer) <= 1 => rxIters = Len(rxEntryTx) \div 2

\* C3 witness: an odd-length transaction with two pairs for the same slot has
\* been processed; the later pattern is in the slot.
C3_Witness ==
    /\ inISR
    /\ rxEntryTx = <<2, 102, 2, 255, 5>>
    /\ rxIters = 2
    /\ rxBuffer = <<5>>
    /\ digitStates[2] = 255
    /\ digitStates[5] = rxEntryStates[5]

\* C10: an invocation entered with k bytes available never reads a byte that
\* is not there, has consumed exactly two bytes per iteration, runs at most
\* floor(k/2) iterations and leaves the loop with at most one byte unread.
C10_ReceiverDrainsWithoutWaiting ==
    inISR =>
        /\ ~rxUnderflow
        /\ Len(rxBuffer) + 2 * rxIters = Len(rxEntryTx)
        /\ rxIters <= Len(rxEntryTx) \div 2
        /\ rxIters = Len(rxEntryTx) \div 2 => Len(rxBuffer) <= 1
        /\ Len(rxBuffer) <= 1 => Len(rxBuffer) = Len(rxEntryTx) % 2

\* C10 witness: five bytes were available, two iterations ran, one byte is
\* left and the loop is over.
C10_Witness ==
    /\ inISR
    /\ Len(rxEntryTx) = 5
    /\ rxIters = 2
    /\ Len(rxBuffer) = 1
    /\ ~rxUnderflow

(***************************************************************************)
(* Properties of the Scan Driver (loop, updateDisplay).                    *)
(***************************************************************************)
\* The level that turns a digit on: the one updateDisplay() writes to the
\* common pin of the selected digit.
ActiveLevel == IF IS_COMMON_ANODE THEN LOW ELSE HIGH

CommonActive(d) == pinLevel[commonPins[d]] = ActiveLevel

ActiveDigits == {d \in 0 .. 5 : CommonActive(d)}

\* The level that lights a segment: LOW on a common-anode display, HIGH on a
\* common-cathode one.
SegmentOnLevel == IF IS_COMMON_ANODE THEN LOW ELSE HIGH

\* The segment lines show pattern p: line s is on exactly if bit s of p is 1.
SegmentsShow(p) ==
    \A s \in 0 .. 7 :
        (pinLevel[segmentPins[s]] = SegmentOnLevel) <=> ((p \div 2 ^ s) % 2 = 1)

\* A refresh cycle is under way: loop() is inside its for loop.
InCycle == pc \in {"off", "on", "seg", "dwell"}

\* C4: at every instant of a refresh cycle, the first one after setup()
\* included, at most one digit's common line is at the active level.
\* Refuted: setup() leaves every common line at the active level, so the
\* first cycle begins with six of them active.
C4_AtMostOneCommonActive == InCycle => Cardinality(ActiveDigits) <= 1

\* C5: each digit's common line is active during its own dwell, when every
\* other common line is inactive, and in no other part of the cycle: in
\* particular none is active while loop() waits for the next cycle. Stated for
\* the states after every digit has been turned on once. Refuted: nothing
\* turns digit 5 off between its dwell and the next cycle.
C5_ActiveOnlyWhileDwelling ==
    Len(activated) = NUM_DIGITS =>
        /\ pc = "dwell" => ActiveDigits = {digit}
        /\ pc \in {"stamp", "check"} => ActiveDigits = {}

\* C6: the digits are turned on in the order 0, 1, ..., 5, each once per
\* cycle: every activation follows that of the digit before it (0 follows 5),
\* the first one is digit 0, and a cycle ends only after digit 5.
C6_EveryDigitOncePerCycleInOrder ==
    /\ \A k \in 1 .. (Len(activated) - 1) :
          activated[k + 1] = (activated[k] + 1) % 6
    /\ (activated # <<>> /\ Len(activated) < 6) => activated[1] = 0
    /\ Len(activated) = 6 =>
          \A d \in 0 .. 5 : Cardinality({k \in 1 .. 6 : activated[k] = d}) = 1
    /\ pc \in {"seg", "dwell"} => activated[Len(activated)] = digit
    /\ (pc = "stamp" \/ (pc = "check" /\ activated # <<>>)) =>
          activated[Len(activated)] = 5
    /\ pc \in {"off", "on"} =>
          IF digit = 0
          THEN activated = <<>> \/ activated[Len(activated)] = 5
          ELSE activated[Len(activated)] = digit - 1

\* C6 witness: a second cycle has reached digit 3 while an update that came
\* during the cycle is in the store.
C6_Witness ==
    /\ pc = "dwell"
    /\ digit = 3
    /\ activated = <<4, 5, 0, 1, 2, 3>>
    /\ 2 \in writtenInCycle

\* C7: when updateDisplay(d) has returned and no update arrived during the
\* call, segment line s is at the "on" level exactly if bit s of slot d is 1;
\* "on" is LOW on a common-anode display and HIGH on a common-cathode one.
C7_SegmentsFollowSlot ==
    (pc = "dwell" /\ ~rxSinceCall) => SegmentsShow(digitStates[digit])

\* C7 witness: a common-cathode build dwells on digit 2, whose slot holds the
\* pattern 0b01100110, with no update since the call began.
C7_Witness ==
    /\ pc = "dwell"
    /\ ~rxSinceCall
    /\ ~IS_COMMON_ANODE
    /\ digit = 2
    /\ digitStates[2] = 102
    /\ pinLevel[segmentPins[1]] = HIGH
    /\ pinLevel[segmentPins[0]] = LOW

\* C8: a write to a slot that completed before the refresh cycle began is
\* visible to that cycle: while digit d dwells and slot d has not been
\* written since the cycle began, the segment lines show the pattern slot d
\* holds, the one written last.
C8_WriteBeforeCycleIsVisible ==
    (pc = "dwell" /\ digit \notin writtenInCycle) =>
        SegmentsShow(digitStates[digit])

\* C8 witness: slot 2 was written before the cycle began, another update came
\* during updateDisplay(2), and digit 2 dwells.
C8_Witness ==
    /\ pc = "dwell"
    /\ digit = 2
    /\ digitStates[2] = 63
    /\ 2 \notin writtenInCycle
    /\ rxSinceCall

\* C9: whatever transactions arrive, every digit is turned on and dwells
\* again and again.
C9_RefreshNeverStops ==
    \A d \in 0 .. 5 : []<>(pc = "dwell" /\ digit = d /\ CommonActive(d))

\* C9 witness: the last digit dwells after a truncated transaction with an
\* out-of-range index has been received.
C9_Witness ==
    /\ pc = "dwell"
    /\ digit = 5
    /\ CommonActive(5)
    /\ rxBuffer = <<7>>
    /\ Len(activated) = 6

(***************************************************************************)
(* Timing of the refresh cycles.                                           *)
(***************************************************************************)
\* The milliseconds counted since loop() last stored lastUpdateTime, which it
\* does when a cycle ends; the cycle began no later than that.
SinceStamp == (now - lastUpdateTime) % MillisMod

\* C11: after a full cycle, loop() starts the next cycle once 2 ms have
\* elapsed since the previous cycle started: when loop() reaches its test and
\* at least 2 ms have been counted since the end of the previous cycle (so at
\* least as many since its start), the test lets the next cycle begin.
\* Refuted: the test is millis() - lastUpdateTime > 2 and lastUpdateTime is
\* taken when the cycle ends, so nothing starts at 2 ms.
C11_NextCycleAfterTwoMs ==
    (pc = "check" /\ ~inISR /\ Len(activated) = NUM_DIGITS /\ SinceStamp >= 2)
        => ENABLED (LoopCheck /\ pc' = "off")

(***************************************************************************)
(* The two contexts together.                                              *)
(***************************************************************************)
\* Every pattern slot d can hold in a run of Spec: the default and the
\* patterns the transactions of ScanTransactions carry for index d.
SlotPatterns(d) ==
    {DefaultPattern} \cup
    UNION {{tx[2 * k] : k \in {m \in 1 .. (Len(tx) \div 2) : tx[2 * m - 1] = d}} :
              tx \in ScanTransactions}

\* C12: wherever receiveEvent preempts updateDisplay(d), the eight segment
\* levels held during the dwell of digit d are those of one single pattern
\* slot d held, never a mixture of the bits of two patterns.
\* Refuted: updateDisplay reads digitStates[digit] once per segment, so an
\* update between two iterations leaves the low segments showing the old
\* pattern and the high segments the new one.
C12_DwellShowsOnePattern ==
    pc = "dwell" => \E p \in SlotPatterns(digit) : SegmentsShow(p)

\* The accepted updates of LiveTransactions: the pairs <<d, p>> whose index
\* is a slot of the store.
LiveUpdates ==
    UNION {{<<tx[2 * k - 1], tx[2 * k]>> :
               k \in {m \in 1 .. (Len(tx) \div 2) : tx[2 * m - 1] \in 0 .. 5}} :
              tx \in LiveTransactions}

\* C13: an accepted update becomes visible within one refresh cycle and stays
\* visible: once a write of p to slot d has completed and the slot keeps p,
\* digit d comes to dwell with the segment lines showing exactly p, and in
\* every cycle that began after the write, the first one included, digit d
\* dwells with the segment lines showing p.
C13_UpdateVisibleWithinOneCycle ==
    \A u \in LiveUpdates :
        /\ (~inISR /\ digitStates[u[1]] = u[2])
              ~> (pc = "dwell" /\ digit = u[1] /\ SegmentsShow(u[2]))
        /\ []((pc = "dwell" /\ digit = u[1] /\ u[1] \notin writtenInCycle
                 /\ digitStates[u[1]] = u[2]) => SegmentsShow(u[2]))

\* C13 witness: the pattern 0b01100110 was written to slot 2 before the
\* cycle began, and digit 2 dwells showing it.
C13_Witness ==
    /\ pc = "dwell"
    /\ digit = 2
    /\ digitStates[2] = 102
    /\ 2 \notin writtenInCycle
    /\ SegmentsShow(102)
    /\ ~SegmentsShow(DefaultPattern)

\* The recorded segment levels lv are those of pattern p.
LevelsShow(lv, p) ==
    \A s \in 0 .. 7 : (lv[s] = SegmentOnLevel) <=> ((p \div 2 ^ s) % 2 = 1)

\* C14: receiveEvent runs to completion: while it is running no step of the
\* main context happens (position, loop variables, pins and lastUpdateTime
\* stay as they are), and it returns only when fewer than two bytes are left,
\* so the scan never resumes between two pairs of one transaction. That one
\* cycle can nevertheless show one digit from before a transaction and another
\* from after it is the state C14_Witness, which is reachable.
C14_ReceiverRunsToCompletion ==
    /\ [][inISR => /\ pc' = pc
                   /\ digit' = digit
                   /\ i' = i
                   /\ seg' = seg
                   /\ pinLevel' = pinLevel
                   /\ lastUpdateTime' = lastUpdateTime]_vars
    /\ [][(inISR /\ ~inISR')
            => /\ Len(rxBuffer) <= 1
               /\ rxIters = Len(rxEntryTx) \div 2]_vars

\* C14 witness: the transaction [4, 0x66, 5, 0x66] arrived on the default
\* store within a cycle, after updateDisplay(4) had read its slot: in this
\* cycle digit 4 was shown with the default pattern, the one from before the
\* transaction, and digit 5 dwells with the pattern from after it.
C14_Witness ==
    /\ pc = "dwell"
    /\ digit = 5
    /\ ~inISR
    /\ writtenInCycle = {4, 5}
    /\ digitStates[4] = 102
    /\ digitStates[5] = 102
    /\ LevelsShow(shown[4], DefaultPattern)
    /\ SegmentsShow(102)

\* C15: the byte an odd-length transaction leaves unread has no effect on a
\* later transaction: no transaction is kept from receiveEvent, and what
\* receiveEvent has still to read is always the rest of the bytes of the
\* transaction it was called for, two bytes less per iteration.
\* Refuted: receiveEvent never reads the odd byte, and with a byte unread the
\* transport discards the transactions that follow.
C15_LaterTransactionsParsed ==
    /\ ~rxDropped
    /\ inISR => rxBuffer = SubSeq(rxEntryTx, 2 * rxIters + 1, Len(rxEntryTx))

(***************************************************************************)
(* The display between setup() and the first cycle, and within a cycle.    *)
(***************************************************************************)
\* C16: from the return of setup() until the first refresh cycle begins all
\* displays are off: every common line is at the inactive level, the one
\* updateDisplay() uses to turn a digit off, and every segment line is at the
\* "off" level.
\* Refuted: setup() writes !IS_COMMON_ANODE to the common pins, the level
\* that turns a digit on.
C16_AllOffAfterSetup ==
    (pc = "check" /\ activated = <<>>) =>
        /\ \A d \in 0 .. 5 : pinLevel[commonPins[d]] = Level(IS_COMMON_ANODE)
        /\ \A s \in 0 .. 7 : pinLevel[segmentPins[s]] # SegmentOnLevel

\* C17: no ghosting: whenever the common line of a digit is active, the
\* segment lines carry the pattern of that digit, never the one driven for
\* the digit that was active before. Stated for the cycles after the first
\* full one and with no update since the cycle began, so that no slot changes
\* under the scan.
\* Refuted: updateDisplay() turns the common line of the digit on before it
\* writes the segment lines, which still carry the previous digit's pattern.
C17_ActiveDigitShowsOwnPattern ==
    (Len(activated) = NUM_DIGITS /\ InCycle /\ writtenInCycle = {})
        => \A d \in ActiveDigits : SegmentsShow(digitStates[d])

\* C18: the two contexts write disjoint state: from its entry to its return
\* receiveEvent changes no digit-common or segment line, no step that moves
\* the main context or an output line or lastUpdateTime changes a slot of the
\* store, and a slot changes only in an iteration of receiveEvent's loop.
C18_ContextsWriteDisjointState ==
    /\ [][(inISR \/ inISR') => pinLevel' = pinLevel]_vars
    /\ [][(pc' # pc \/ digit' # digit \/ i' # i \/ seg' # seg
              \/ pinLevel' # pinLevel \/ lastUpdateTime' # lastUpdateTime)
            => digitStates' = digitStates]_vars
    /\ [][digitStates' # digitStates => RxPairStep]_vars

\* C18 witness: receiveEvent preempted updateDisplay(2) in the middle of the
\* segment loop and has changed slot 2; the scan is where it was.
C18_Witness ==
    /\ inISR
    /\ rxEntryTx = <<2, 102>>
    /\ rxIters = 1
    /\ digitStates[2] = 102
    /\ rxEntryStates[2] # 102
    /\ pc = "seg"
    /\ digit = 2
    /\ seg = 4

\* C19: the refresh test survives the wrap-around of the millisecond counter:
\* when loop() runs its test and the counter has wrapped since lastUpdateTime
\* was stored (millis() reads less than lastUpdateTime), a cycle starts
\* exactly if more than 2 ms have been counted since then, the milliseconds
\* before and after the wrap taken together; loop() neither waits for the
\* counter to pass lastUpdateTime again nor starts a cycle on every pass.
C19_RefreshSurvivesWrap ==
    (pc = "check" /\ ~inISR /\ now < lastUpdateTime)
        => ((ENABLED (LoopCheck /\ pc' = "off"))
               <=> ((MillisMod - lastUpdateTime) + now > 2))

\* C19 witness: a cycle has just started although millis() reads less than
\* lastUpdateTime: the counter wrapped during the wait.
C19_Witness ==
    /\ pc = "off"
    /\ digit = 0
    /\ i = 0
    /\ Len(activated) = NUM_DIGITS
    /\ lastUpdateTime = MillisMod - 1
    /\ now = 2

(***************************************************************************)
(* Array accesses.                                                         *)
(***************************************************************************)
\* C20: every access to the store and to the pin tables is in bounds, for
\* every index byte 0..255 the host can send: the index of a pair
\* receiveEvent is about to store under is a slot of digitStates, the first
\* loop of updateDisplay() indexes commonPins within the table, the digit it
\* turns on and reads is within commonPins and digitStates, the segment loop
\* indexes segmentPins within the table, and the store keeps its six slots.
C20_AccessesInBounds ==
    /\ DOMAIN digitStates = 0 .. 5
    /\ (inISR /\ Len(rxBuffer) >= 2 /\ IndexAccepted(rxBuffer[1]))
          => rxBuffer[1] \in DOMAIN digitStates
    /\ pc = "off" => i \in DOMAIN commonPins
    /\ pc \in {"on", "seg"} =>
          (digit \in DOMAIN commonPins /\ SlotRead(digit) \in DOMAIN digitStates)
    /\ pc = "seg" => seg \in DOMAIN segmentPins

\* C20 witness: the index bytes 240..255 were received and dropped while
\* updateDisplay(5) is at the last segment: the highest indices in use.
C20_Witness ==
    /\ inISR
    /\ rxEntryTx = ByteRun(15)
    /\ rxIters = 16
    /\ digitStates = rxEntryStates
    /\ pc = "seg"
    /\ digit = 5
    /\ seg = 7

====
